---- MODULE Spec2Model ----
(***************************************************************************)
(* The chat route of ai-chatbot: src/app/(chat)/api/chat/route.ts.         *)
(*                                                                         *)
(* The module holds the process-wide resumable stream context, the message *)
(* store the route talks to, and a fixed set of in-flight requests.  Each  *)
(* request is a POST or a DELETE; every `await` of the handler is a step   *)
(* of its own, so that requests interleave exactly at the suspension       *)
(* points of the code.  normaliseA2AParts is an operator; a second         *)
(* specification, NormSpec, applies it to every bounded fragment sequence. *)
(***************************************************************************)
EXTENDS Integers, Sequences, FiniteSets, TLC

VARIABLES
    globalStreamContext,  \* route.ts:43, "null" or "ctx"
    redisUrl,             \* whether REDIS_URL is configured for this process
    createCalls,          \* invocations of createResumableStreamContext so far
    chats,                \* Message Store: conversation id -> owner (or NoUser)
    messages,             \* Message Store: the persisted turns, in write order
    streamIds,            \* Message Store: the stream sessions
    priorTurns,           \* user turns of the trailing 24h in other conversations
    req,                  \* the in-flight requests, one record each
    normPc,               \* NormSpec: position of the normaliser run
    normIn,               \* NormSpec: the raw fragments
    normOut,              \* NormSpec: normaliseA2AParts(normIn)
    normTwice             \* NormSpec: normaliseA2AParts(normOut)

storeVars == <<chats, messages, streamIds, priorTurns>>
ctxVars == <<globalStreamContext, redisUrl, createCalls>>
normVars == <<normPc, normIn, normOut, normTwice>>
vars == <<globalStreamContext, redisUrl, createCalls, chats, messages,
          streamIds, priorTurns, req, normPc, normIn, normOut, normTwice>>

(***************************************************************************)
(* Bounds.                                                                 *)
(***************************************************************************)
MaxLen == 3          \* longest raw fragment sequence given to the normaliser
MaxDeltas == 2       \* text deltas one generation emits at most
MaxPrior == 2        \* user turns a caller may already have in the window
GuestMax == 1        \* daily quota of the guest tier
RegularMax == 2      \* daily quota of the regular tier

Requests == {"r1", "r2"}
Users == {"A", "B"}
NoUser == "none"
ChatIds == {"c1"}
NoChat == "nochat"
Models == {"chat-model", "a2a-model"}

(***************************************************************************)
(* Content parts.  Every part is a record with a type and a text; the text *)
(* of a structural marker is empty.                                        *)
(***************************************************************************)
TextPart(t) == [type |-> "text", text |-> t]
Marker(ty) == [type |-> ty, text |-> ""]
StepStart == Marker("step-start")
StepEnd == Marker("step-end")
Texts == {"", "a", "b"}
RawParts == {StepStart, StepEnd} \cup {TextPart(t) : t \in Texts}

RECURSIVE Join(_)
\* Array.prototype.join(''): the strings of a sequence, in order, no separator.
Join(ss) == IF ss = <<>> THEN "" ELSE Head(ss) \o Join(Tail(ss))

IsTextPart(p) == p.type = "text"

TextsOf(parts) ==
    LET kept == SelectSeq(parts, IsTextPart)
    IN [i \in 1..Len(kept) |-> kept[i].text]

\* A normaliser that tags its output part as reasoning instead of text.
normaliseWrongTag(parts) ==
    LET text == Join(TextsOf(parts))
    IN IF text # "" THEN <<[type |-> "reasoning", text |-> text]>> ELSE <<>>

\* A normaliser that joins with a blank between the fragments.
RECURSIVE JoinBlank(_)
JoinBlank(ss) ==
    IF ss = <<>> THEN ""
    ELSE IF Len(ss) = 1 THEN Head(ss)
    ELSE Head(ss) \o " " \o JoinBlank(Tail(ss))

normaliseBlank(parts) ==
    LET text == JoinBlank(TextsOf(parts))
    IN IF text # "" THEN <<TextPart(text)>> ELSE <<>>

\* A normaliser that does not filter its result for emptiness.
normaliseKeepEmpty(parts) == <<TextPart(Join(TextsOf(parts)))>>

\* route.ts:65-76
normaliseA2AParts(parts) ==
    LET text == Join(TextsOf(parts))
    IN IF text # "" THEN <<TextPart(text)>> ELSE <<>>


\* A selection that normalises the parts of every model.
CleanedAlways(model, parts) == normaliseA2AParts(parts)

\* route.ts:171-173 and route.ts:241-244
Cleaned(model, parts) ==
    IF model = "a2a-model" THEN normaliseA2AParts(parts) ELSE parts

(***************************************************************************)
(* Collaborators of the route (lib/db/queries, lib/ai/entitlements,        *)
(* lib/errors), as the route uses them.                                    *)
(***************************************************************************)
userType(u) == IF u = "A" THEN "guest" ELSE "regular"

\* entitlementsByUserType[userType].maxMessagesPerDay
maxMessagesPerDay(ut) == IF ut = "guest" THEN GuestMax ELSE RegularMax

\* getMessageCountByUserId({id, differenceInHours: 24}): the user turns of
\* the window in the conversations the user owns.
getMessageCountByUserId(u) ==
    priorTurns[u]
    + Cardinality({i \in DOMAIN messages :
                     /\ messages[i].role = "user"
                     /\ chats[messages[i].chatId] = u})

\* getChatById({id}): the owner of the stored conversation, NoUser if none.
getChatById(id) == chats[id]

Turn(r, id, role, parts) ==
    [chatId |-> id, id |-> <<r, role>>, role |-> role, parts |-> parts,
     attachments |-> <<>>]

(***************************************************************************)
(* Requests.                                                               *)
(***************************************************************************)
UserParts ==
    { <<TextPart("a")>>,
      <<StepStart, TextPart("a"), TextPart("b"), StepEnd>> }

Rejections ==
    {"bad_request:api", "unauthorized:chat", "rate_limit:chat", "forbidden:chat"}

IdleReq ==
    [pc |-> "idle", method |-> "none", session |-> NoUser, id |-> NoChat,
     model |-> "none", parts |-> <<>>, messageCount |-> -1, chat |-> "unread",
     response |-> "none", thrown |-> "none", effects |-> {},
     gen |-> "idle", produced |-> 0, outgoing |-> <<>>, transport |-> "none",
     client |-> "none"]

\* The awaited calls inside POST's try block (route.ts:90-276).
PostAwaits ==
    {"auth", "count", "getChat", "saveChat", "saveUser", "createStreamId",
     "resumable"}

\* The awaited calls of DELETE (route.ts:315-327), which has no try block.
DeleteAwaits == {"dAuth", "dGetChat", "dDelete"}

Set(r, rec) == req' = [req EXCEPT ![r] = rec]

Reply(r, code) == [req[r] EXCEPT !.pc = "done", !.response = code]

\* route.ts:78-103: the body is read and parsed against the schema.  The
\* request fixes every field of the body; the record keeps a field from the
\* step of the handler that first reads it (id here, the model and the
\* parts where the user's turn is built).
ReceivePost(r) ==
    /\ req[r].pc = "idle"
    /\ \E valid \in BOOLEAN, id \in ChatIds :
          IF valid
          THEN Set(r, [req[r] EXCEPT !.pc = "auth", !.method = "POST",
                                     !.id = id])
          ELSE Set(r, [Reply(r, "bad_request:api") EXCEPT !.method = "POST"])
    /\ UNCHANGED <<ctxVars, storeVars, normVars>>

\* route.ts:104-112: auth() answers with the caller's session, or none.
PostAuth(r) ==
    /\ req[r].pc = "auth"
    /\ \E u \in Users \cup {NoUser} :
          IF u = NoUser
          THEN Set(r, Reply(r, "unauthorized:chat"))
          ELSE Set(r, [req[r] EXCEPT !.pc = "count", !.session = u])
    /\ UNCHANGED <<ctxVars, storeVars, normVars>>

\* route.ts:120
OverQuota(count, ut) == count > maxMessagesPerDay(ut)

\* A handler that saves the caller's turn before it tests the quota.
PostCountSavesFirst(r) ==
    /\ req[r].pc = "count"
    /\ \E m \in Models, ps \in UserParts :
          messages' = Append(messages, Turn(r, req[r].id, "user", Cleaned(m, ps)))
    /\ LET n == getMessageCountByUserId(req[r].session)
       IN IF OverQuota(n, userType(req[r].session))
          THEN Set(r, [Reply(r, "rate_limit:chat") EXCEPT !.messageCount = n])
          ELSE Set(r, [req[r] EXCEPT !.pc = "getChat", !.messageCount = n])
    /\ UNCHANGED <<ctxVars, chats, streamIds, priorTurns, normVars>>

\* route.ts:114-123
PostCount(r) ==
    /\ req[r].pc = "count"
    /\ LET n == getMessageCountByUserId(req[r].session)
       IN IF OverQuota(n, userType(req[r].session))
          THEN Set(r, [Reply(r, "rate_limit:chat") EXCEPT !.messageCount = n])
          ELSE Set(r, [req[r] EXCEPT !.pc = "getChat", !.messageCount = n])
    /\ UNCHANGED <<ctxVars, storeVars, normVars>>

\* An ownership test that lets every caller through.
NotOwnerNever(owner, u) == FALSE

\* route.ts:143 and route.ts:323
NotOwner(owner, u) == owner # u

\* route.ts:125-147: the conversation is looked up; a missing one is to be
\* created (its title is generated first, route.ts:130-133, which touches
\* nothing shared), a foreign one is refused.
PostGetChat(r) ==
    /\ req[r].pc = "getChat"
    /\ LET chat == getChatById(req[r].id)
       IN IF chat = NoUser
          THEN Set(r, [req[r] EXCEPT !.pc = "saveChat", !.chat = chat])
          ELSE IF NotOwner(chat, req[r].session)
          THEN Set(r, [Reply(r, "forbidden:chat") EXCEPT !.chat = chat])
          ELSE Set(r, [req[r] EXCEPT !.pc = "saveUser", !.chat = chat])
    /\ UNCHANGED <<ctxVars, storeVars, normVars>>

\* A handler that passes every caught error to the client as it is.
CatchResponseLeaks(kind) == "chat_sdk_error"

\* route.ts:277-304: a caught ChatSDKError answers with its own toResponse();
\* anything else is logged and answered with offline:chat.
CatchResponse(kind) ==
    IF kind = "ChatSDKError" THEN "chat_sdk_error" ELSE "offline:chat"

\* The store holds one conversation per id, and a turn only for a stored
\* conversation (spec, data model: each turn belongs to exactly one
\* conversation); a write against either rule is refused.
HasChat(id) == chats[id] # NoUser

\* route.ts:277-304: the handler's end when the awaited call raises kind.
Caught(r, kind, call) ==
    [req[r] EXCEPT !.pc = "done", !.thrown = kind,
                   !.response = CatchResponse(kind),
                   !.effects = @ \cup {call}]

\* route.ts:135-141: saveChat is called because the lookup found nothing;
\* the store refuses it if the id has been saved since.
PostSaveChat(r) ==
    /\ req[r].pc = "saveChat"
    /\ IF ~HasChat(req[r].id)
       THEN /\ chats' = [chats EXCEPT ![req[r].id] = req[r].session]
            /\ Set(r, [req[r] EXCEPT !.pc = "saveUser",
                                     !.effects = @ \cup {"saveChat"}])
       ELSE /\ chats' = chats
            /\ \E kind \in {"ChatSDKError", "Error"} :
                  Set(r, Caught(r, kind, "saveChat:refused"))
    /\ UNCHANGED <<ctxVars, messages, streamIds, priorTurns, normVars>>

\* route.ts:149-186: the history is read (it feeds the prompt only), the
\* user's turn is built from the body's model and parts, and saved.
PostSaveUserMessage(r) ==
    /\ req[r].pc = "saveUser"
    /\ IF HasChat(req[r].id)
       THEN \E m \in Models, ps \in UserParts :
              /\ messages' = Append(messages,
                                    Turn(r, req[r].id, "user", Cleaned(m, ps)))
              /\ Set(r, [req[r] EXCEPT !.pc = "createStreamId", !.model = m,
                                       !.parts = ps,
                                       !.effects = @ \cup {"saveMessages"}])
       ELSE /\ messages' = messages
            /\ \E kind \in {"ChatSDKError", "Error"} :
                  Set(r, Caught(r, kind, "saveMessages:refused"))
    /\ UNCHANGED <<ctxVars, chats, streamIds, priorTurns, normVars>>

\* A handler that goes on to the generation without a stream session.
PostSkipsStreamId(r) ==
    /\ req[r].pc = "createStreamId"
    /\ Set(r, [req[r] EXCEPT !.pc = "openStream"])
    /\ UNCHANGED <<ctxVars, storeVars, normVars>>

\* route.ts:188-189
PostCreateStreamId(r) ==
    /\ req[r].pc = "createStreamId"
    /\ streamIds' = streamIds \cup {[streamId |-> r, chatId |-> req[r].id]}
    /\ Set(r, [req[r] EXCEPT !.pc = "openStream",
                             !.effects = @ \cup {"createStreamId"}])
    /\ UNCHANGED <<ctxVars, chats, messages, priorTurns, normVars>>


(***************************************************************************)
(* The resumable stream context (route.ts:43-63).                          *)
(***************************************************************************)
\* A getStreamContext that creates a context on every call.
CreatesContextEachCall(g) == TRUE

\* route.ts:46: createResumableStreamContext is invoked iff the global is null.
CreatesContext(g) == g = "null"

\* A getStreamContext without its try/catch: a failed creation escapes.
getStreamContextRaisesUncaught(g, configured) == g = "null" /\ ~configured

\* route.ts:47-59: the try/catch logs a failed creation and goes on; nothing
\* escapes getStreamContext.
getStreamContextRaises(g, configured) == FALSE

\* route.ts:45-63: the value returned, which is the global after the call.
getStreamContext(g, configured) ==
    IF CreatesContext(g) THEN (IF configured THEN "ctx" ELSE "null") ELSE g

\* route.ts:257-263
onError == "Oops, an error occurred!"

(***************************************************************************)
(* Generation and the outgoing stream (route.ts:191-276).                  *)
(***************************************************************************)
DeltaText(i) == IF i = 1 THEN "a" ELSE IF i = 2 THEN "b" ELSE "c"

Event(ty, t) == [type |-> ty, text |-> t]

\* route.ts:191-232 and 266-276: createUIMessageStream runs execute at once
\* (streamText starts), then the stream context is asked for.
PostOpenStream(r) ==
    /\ req[r].pc = "openStream"
    /\ LET raised == getStreamContextRaises(globalStreamContext, redisUrl)
           ctx == getStreamContext(globalStreamContext, redisUrl)
           started == [req[r] EXCEPT !.gen = "running",
                                     !.effects = @ \cup {"streamText"}]
       IN /\ createCalls' = IF CreatesContext(globalStreamContext)
                            THEN createCalls + 1 ELSE createCalls
          /\ globalStreamContext' = ctx
          /\ IF raised
             THEN Set(r, [started EXCEPT !.pc = "done", !.thrown = "Error",
                                         !.response = CatchResponse("Error")])
             ELSE IF ctx # "null"
             THEN Set(r, [started EXCEPT !.pc = "resumable"])
             ELSE Set(r, [started EXCEPT !.pc = "streaming",
                                         !.response = "stream",
                                         !.transport = "plain",
                                         !.client = "connected"])
    /\ UNCHANGED <<redisUrl, storeVars, normVars>>

\* route.ts:268-273
PostResumable(r) ==
    /\ req[r].pc = "resumable"
    /\ Set(r, [req[r] EXCEPT !.pc = "streaming", !.response = "stream",
                             !.transport = "resumable",
                             !.client = "connected"])
    /\ UNCHANGED <<ctxVars, storeVars, normVars>>

\* The generation runs, and consumeStream (route.ts:225) drains it,
\* from execute on; nothing of the request's fate is handed to streamText
\* (route.ts:193-223 pass no abort signal).
Generating(r) == req[r].gen = "running" /\ req[r].pc = "streaming"

\* route.ts:225: the drain reads the backend for as long as it produces.
Draining(r) == Generating(r)

\* route.ts:227-231: the forwarded view of the generation, merged into the
\* response stream; it carries an event while its reader is there.
Forward(r, ev) ==
    IF req[r].client = "connected" THEN Append(req[r].outgoing, ev)
    ELSE req[r].outgoing

\* route.ts:193-231: the backend emits a text delta.
EmitDelta(r) ==
    /\ Draining(r)
    /\ req[r].produced < MaxDeltas
    /\ Set(r, [req[r] EXCEPT !.produced = @ + 1,
                 !.outgoing = Forward(r, Event("text-delta", DeltaText(req[r].produced + 1)))])
    /\ UNCHANGED <<ctxVars, storeVars, normVars>>

\* route.ts:193-231: the generation completes.
GenFinish(r) ==
    /\ Draining(r)
    /\ Set(r, [req[r] EXCEPT !.gen = "finished",
                             !.outgoing = Forward(r, Event("finish", ""))])
    /\ UNCHANGED <<ctxVars, storeVars, normVars>>

\* route.ts:257-263: the generation raises; the stream carries one error
\* event with the text onError returns, and closes.
GenError(r) ==
    /\ Draining(r)
    /\ Set(r, [req[r] EXCEPT !.gen = "errored",
                             !.outgoing = Forward(r, Event("error", onError))])
    /\ UNCHANGED <<ctxVars, storeVars, normVars>>

\* route.ts:274-276: the client of a plain response goes away, which ends
\* the forwarded stream.  (A resumable stream is read by the stream context,
\* route.ts:269-273, whether a client is attached or not.)
ClientDisconnect(r) ==
    /\ req[r].pc = "streaming"
    /\ req[r].transport = "plain"
    /\ req[r].client = "connected"
    /\ Set(r, [req[r] EXCEPT !.client = "gone"])
    /\ UNCHANGED <<ctxVars, storeVars, normVars>>

\* The text deltas the forwarded stream has carried.
Forwarded(r) ==
    Cardinality({i \in DOMAIN req[r].outgoing :
                   req[r].outgoing[i].type = "text-delta"})

ForwardedFinish(r) ==
    \E i \in DOMAIN req[r].outgoing : req[r].outgoing[i].type = "finish"

\* The parts of the response message built from the forwarded stream: a
\* step marker, then the text received (route.ts:66-67 for the a2a shape).
ResponseParts(r) ==
    LET n == Forwarded(r)
        texts == [i \in 1..n |-> DeltaText(i)]
    IN IF req[r].model = "a2a-model"
       THEN <<StepStart>> \o [i \in 1..n |-> TextPart(DeltaText(i))]
            \o (IF ForwardedFinish(r) THEN <<StepEnd>> ELSE <<>>)
       ELSE <<StepStart>> \o (IF n > 0 THEN <<TextPart(Join(texts))>> ELSE <<>>)

\* route.ts:239-254: every message handed to onFinish becomes a turn.
FinishedTurns(r) ==
    <<Turn(r, req[r].id, "assistant", Cleaned(req[r].model, ResponseParts(r)))>>

\* A finish handler that stores the conversation anew from what it is handed.
OnFinishReplaces(r) ==
    /\ req[r].pc = "streaming"
    /\ req[r].gen \in {"finished", "errored"}
    /\ messages' = FinishedTurns(r)
    /\ Set(r, [req[r] EXCEPT !.pc = "done", !.effects = @ \cup {"onFinish"}])
    /\ UNCHANGED <<ctxVars, chats, streamIds, priorTurns, normVars>>

\* route.ts:234-256: onFinish runs when the outgoing stream has closed,
\* after a finish and after an error event alike: the handler reads nothing
\* of the stream's outcome.
OnFinish(r) ==
    /\ req[r].pc = "streaming"
    /\ req[r].gen \in {"finished", "errored"}
    /\ messages' = IF HasChat(req[r].id) THEN messages \o FinishedTurns(r)
                   ELSE messages
    /\ Set(r, [req[r] EXCEPT !.pc = "done", !.effects = @ \cup {"onFinish"}])
    /\ UNCHANGED <<ctxVars, chats, streamIds, priorTurns, normVars>>

\* route.ts:277-304: an awaited call of the try block raises.
PostThrows(r) ==
    /\ req[r].pc \in PostAwaits
    /\ \E kind \in {"ChatSDKError", "Error"} :
          Set(r, [req[r] EXCEPT !.pc = "done", !.thrown = kind,
                                !.response = CatchResponse(kind)])
    /\ UNCHANGED <<ctxVars, storeVars, normVars>>

(***************************************************************************)
(* DELETE (route.ts:307-330).                                              *)
(***************************************************************************)
\* route.ts:308-313
ReceiveDelete(r) ==
    /\ req[r].pc = "idle"
    /\ \E hasId \in BOOLEAN, id \in ChatIds :
          IF hasId
          THEN Set(r, [req[r] EXCEPT !.pc = "dAuth", !.method = "DELETE",
                                     !.id = id])
          ELSE Set(r, [Reply(r, "bad_request:api") EXCEPT !.method = "DELETE"])
    /\ UNCHANGED <<ctxVars, storeVars, normVars>>

\* route.ts:315-319
DeleteAuth(r) ==
    /\ req[r].pc = "dAuth"
    /\ \E u \in Users \cup {NoUser} :
          IF u = NoUser
          THEN Set(r, Reply(r, "unauthorized:chat"))
          ELSE Set(r, [req[r] EXCEPT !.pc = "dGetChat", !.session = u])
    /\ UNCHANGED <<ctxVars, storeVars, normVars>>

\* route.ts:321-325: chat.userId of a missing conversation is a TypeError,
\* which nothing in DELETE catches.
DeleteGetChat(r) ==
    /\ req[r].pc = "dGetChat"
    /\ LET chat == getChatById(req[r].id)
       IN IF chat = NoUser
          THEN Set(r, [req[r] EXCEPT !.pc = "done", !.chat = chat,
                                     !.thrown = "TypeError",
                                     !.response = "unhandled"])
          ELSE IF NotOwner(chat, req[r].session)
          THEN Set(r, [Reply(r, "forbidden:chat") EXCEPT !.chat = chat])
          ELSE Set(r, [req[r] EXCEPT !.pc = "dDelete", !.chat = chat])
    /\ UNCHANGED <<ctxVars, storeVars, normVars>>

\* route.ts:327-329: deleteChatById removes the conversation with its turns
\* and stream sessions.
DeleteChat(r) ==
    /\ req[r].pc = "dDelete"
    /\ chats' = [chats EXCEPT ![req[r].id] = NoUser]
    /\ messages' = SelectSeq(messages, LAMBDA m : m.chatId # req[r].id)
    /\ streamIds' = {s \in streamIds : s.chatId # req[r].id}
    /\ Set(r, [Reply(r, "ok") EXCEPT !.effects = @ \cup {"deleteChatById"}])
    /\ UNCHANGED <<ctxVars, priorTurns, normVars>>

\* route.ts:315-327: an awaited call of DELETE raises; nothing catches it.
DeleteThrows(r) ==
    /\ req[r].pc \in DeleteAwaits
    /\ \E kind \in {"ChatSDKError", "Error"} :
          Set(r, [req[r] EXCEPT !.pc = "done", !.thrown = kind,
                                !.response = "unhandled"])
    /\ UNCHANGED <<ctxVars, storeVars, normVars>>

(***************************************************************************)
(* The specification of the route.                                         *)
(***************************************************************************)
Init ==
    /\ globalStreamContext = "null"
    /\ redisUrl \in BOOLEAN
    /\ createCalls = 0
    /\ chats \in [ChatIds -> Users \cup {NoUser}]
    /\ messages = <<>>
    /\ streamIds = {}
    /\ priorTurns \in {[u \in Users |-> n] : n \in 0..MaxPrior}
    /\ req = [r \in Requests |-> IdleReq]
    /\ normPc = "off"
    /\ normIn = <<>>
    /\ normOut = <<>>
    /\ normTwice = <<>>

Next ==
    \E r \in Requests :
        \/ ReceivePost(r)
        \/ PostAuth(r)
        \/ PostCount(r)
        \/ PostGetChat(r)
        \/ PostSaveChat(r)
        \/ PostSaveUserMessage(r)
        \/ PostCreateStreamId(r)
        \/ PostOpenStream(r)
        \/ PostResumable(r)
        \/ EmitDelta(r)
        \/ GenFinish(r)
        \/ GenError(r)
        \/ OnFinish(r)
        \/ PostThrows(r)
        \/ ReceiveDelete(r)
        \/ DeleteAuth(r)
        \/ DeleteGetChat(r)
        \/ DeleteChat(r)
        \/ DeleteThrows(r)

Spec == Init /\ [][Next]_vars

(***************************************************************************)
(* The specification of the route with clients that may go away while a    *)
(* plain response streams, from an empty store.                            *)
(***************************************************************************)
StreamInit ==
    /\ globalStreamContext = "null"
    /\ redisUrl \in BOOLEAN
    /\ createCalls = 0
    /\ chats = [c \in ChatIds |-> NoUser]
    /\ messages = <<>>
    /\ streamIds = {}
    /\ priorTurns = [u \in Users |-> 0]
    /\ req = [r \in Requests |-> IdleReq]
    /\ normPc = "off"
    /\ normIn = <<>>
    /\ normOut = <<>>
    /\ normTwice = <<>>

StreamNext ==
    \/ Next
    \/ \E r \in Requests : ClientDisconnect(r)

StreamSpec == StreamInit /\ [][StreamNext]_vars

(***************************************************************************)
(* Three requests in the part of the route that resolves the conversation  *)
(* and saves the user's turn (route.ts:78-186, 307-330); every behaviour   *)
(* is the start of a behaviour of the route under three requests.          *)
(***************************************************************************)
RaceRequests == {"r1", "r2", "r3"}

RaceInit ==
    /\ globalStreamContext = "null"
    /\ redisUrl = FALSE
    /\ createCalls = 0
    /\ chats = [c \in ChatIds |-> NoUser]
    /\ messages = <<>>
    /\ streamIds = {}
    /\ priorTurns = [u \in Users |-> 0]
    /\ req = [r \in RaceRequests |-> IdleReq]
    /\ normPc = "off"
    /\ normIn = <<>>
    /\ normOut = <<>>
    /\ normTwice = <<>>

RaceNext ==
    \E r \in RaceRequests :
        \/ ReceivePost(r)
        \/ PostAuth(r)
        \/ PostCount(r)
        \/ PostGetChat(r)
        \/ PostSaveChat(r)
        \/ PostSaveUserMessage(r)
        \/ ReceiveDelete(r)
        \/ DeleteAuth(r)
        \/ DeleteGetChat(r)
        \/ DeleteChat(r)

RaceSpec == RaceInit /\ [][RaceNext]_vars

(***************************************************************************)
(* The specification of the normaliser alone: every fragment sequence up   *)
(* to MaxLen is normalised, and its result normalised again.               *)
(***************************************************************************)
RawSeqs == UNION {[1..n -> RawParts] : n \in 0..MaxLen}

NormInit ==
    /\ globalStreamContext = "null"
    /\ redisUrl = FALSE
    /\ createCalls = 0
    /\ chats = [c \in ChatIds |-> NoUser]
    /\ messages = <<>>
    /\ streamIds = {}
    /\ priorTurns = [u \in Users |-> 0]
    /\ req = [r \in Requests |-> IdleReq]
    /\ normPc = "raw"
    /\ normIn \in RawSeqs
    /\ normOut = <<>>
    /\ normTwice = <<>>

NormOnce ==
    /\ normPc = "raw"
    /\ normOut' = normaliseA2AParts(normIn)
    /\ normPc' = "once"
    /\ UNCHANGED <<ctxVars, storeVars, req, normIn, normTwice>>

NormAgain ==
    /\ normPc = "once"
    /\ normTwice' = normaliseA2AParts(normOut)
    /\ normPc' = "twice"
    /\ UNCHANGED <<ctxVars, storeVars, req, normIn, normOut>>

NormNext == NormOnce \/ NormAgain

NormSpec == NormInit /\ [][NormNext]_vars


(***************************************************************************)
(* Properties of the normaliser, under NormSpec.                           *)
(***************************************************************************)
RECURSIVE ConcatText(_)
\* The text of the fragments of type text, in input order, no separator.
ConcatText(ps) ==
    IF ps = <<>> THEN ""
    ELSE (IF Head(ps).type = "text" THEN Head(ps).text ELSE "")
         \o ConcatText(Tail(ps))

\* C8: whenever the concatenation of the text fragments of the input is
\* non-empty, the normaliser returns exactly one part, of type text, whose
\* text is that concatenation; other fragments contribute nothing.
C8_OneTextPart ==
    (normPc # "raw" /\ ConcatText(normIn) # "")
        => /\ Len(normOut) = 1
           /\ normOut[1].type = "text"
           /\ normOut[1].text = ConcatText(normIn)

C8_Witness ==
    /\ normPc = "once"
    /\ normIn = <<StepStart, TextPart("a"), TextPart("b")>>
    /\ normOut = <<TextPart("ab")>>

\* C9: the normaliser returns the empty sequence for the empty input, for
\* an input of structural markers only, and for an input whose text
\* fragments are all empty strings.
C9_EmptyResult ==
    (/\ normPc # "raw"
     /\ \A i \in 1..Len(normIn) : normIn[i].type # "text" \/ normIn[i].text = "")
        => normOut = <<>>

C9_Witness ==
    /\ normPc = "once"
    /\ normIn = <<StepStart, TextPart(""), StepEnd>>
    /\ normOut = <<>>

\* C10: normalising the normaliser's own result changes nothing.
C10_Idempotent == normPc = "twice" => normTwice = normOut

C10_Witness ==
    /\ normPc = "twice"
    /\ normIn = <<TextPart("a"), StepEnd, TextPart("b")>>
    /\ normOut = <<TextPart("ab")>>
    /\ normTwice = <<TextPart("ab")>>


(***************************************************************************)
(* Properties of the route, under Spec.                                    *)
(***************************************************************************)
Posts == {r \in DOMAIN req : req[r].method = "POST"}
Deletes == {r \in DOMAIN req : req[r].method = "DELETE"}

AssistantTurnOf(r) ==
    \E i \in DOMAIN messages : messages[i].id = <<r, "assistant">>

ErrorEvents(r) ==
    {i \in DOMAIN req[r].outgoing : req[r].outgoing[i].type = "error"}

\* C1: once a generation has raised after emitting text deltas, no turn of
\* the assistant message in progress is persisted, and the client has
\* received exactly one error event, the last of the stream, carrying the
\* generic message.
C1_NothingSavedAfterError ==
    \A r \in Posts :
        (req[r].gen = "errored" /\ req[r].produced > 0)
            => /\ ~AssistantTurnOf(r)
               /\ ErrorEvents(r) = {Len(req[r].outgoing)}
               /\ req[r].outgoing[Len(req[r].outgoing)].text = onError

C3_QuotaBoundary ==
    \A r \in Posts :
        LET quota == maxMessagesPerDay(userType(req[r].session))
        IN /\ req[r].messageCount = quota => req[r].response = "rate_limit:chat"
           /\ req[r].messageCount = quota - 1 => req[r].response # "rate_limit:chat"

\* C4: a DELETE whose caller is not the owner of the stored conversation is
\* answered forbidden:chat and never calls deleteChatById.
C4_ForeignDeleteRefused ==
    \A r \in Deletes :
        (req[r].chat \in Users /\ req[r].chat # req[r].session)
            => /\ req[r].response = "forbidden:chat"
               /\ "deleteChatById" \notin req[r].effects

C4_Witness ==
    \E r \in Deletes :
        /\ req[r].response = "forbidden:chat"
        /\ req[r].session = "B"
        /\ req[r].chat = "A"
        /\ chats[req[r].id] = "A"
        /\ messages # <<>>

\* C5: without REDIS_URL, the failed creation of the stream context is
\* cached: createResumableStreamContext is attempted once per process.
C5_FailureCached == ~redisUrl => createCalls <= 1

\* The events a generation has put on its stream: its deltas in order,
\* then its one terminal event.
ExpectedEvents(r) ==
    [i \in 1..req[r].produced |-> Event("text-delta", DeltaText(i))]
    \o (IF req[r].gen = "finished" THEN <<Event("finish", "")>>
        ELSE IF req[r].gen = "errored" THEN <<Event("error", onError)>>
        ELSE <<>>)

\* C6: without REDIS_URL, a POST that reaches the stream context gets no
\* context and raises nothing: it answers with the plain stream, which
\* carries every event of the generation.
C6_PlainFallback ==
    \A r \in Posts :
        (~redisUrl /\ "streamText" \in req[r].effects)
            => /\ globalStreamContext = "null"
               /\ req[r].thrown = "none"
               /\ req[r].response = "stream"
               /\ req[r].transport = "plain"
               /\ req[r].client = "connected"
                    => req[r].outgoing = ExpectedEvents(r)

C6_Witness ==
    \E r \in Posts :
        /\ ~redisUrl
        /\ req[r].transport = "plain"
        /\ req[r].client = "connected"
        /\ req[r].gen = "finished"
        /\ req[r].produced = 2
        /\ req[r].pc = "done"

\* C7 as claimed: every exception raised in POST after admission (the
\* conversation was resolved) is answered offline:chat.
C7_AlwaysOffline ==
    \A r \in Posts :
        (req[r].thrown # "none" /\ req[r].chat # "unread")
            => req[r].response = "offline:chat"

\* C7, amended: an exception that is not a ChatSDKError is answered
\* offline:chat; a ChatSDKError is answered with its own response.
C7_OfflineUnlessSdkError ==
    \A r \in Posts :
        /\ req[r].thrown = "Error" => req[r].response = "offline:chat"
        /\ req[r].thrown = "ChatSDKError" => req[r].response = "chat_sdk_error"

C7_Witness ==
    \E r \in Posts :
        /\ req[r].thrown = "Error"
        /\ req[r].response = "offline:chat"
        /\ {"saveChat", "saveMessages"} \subseteq req[r].effects


IsMarker(p) == p.type \in {"step-start", "step-end"}

\* C11: no persisted turn, of the user or of the assistant, whatever the
\* model, holds a structural marker part.
C11_NoMarkerStored ==
    \A i \in DOMAIN messages :
        \A j \in DOMAIN messages[i].parts : ~IsMarker(messages[i].parts[j])

\* The parts a turn was built from: the body's parts for the user's turn,
\* the response message's parts for the assistant's.
RawPartsOf(m) ==
    IF m.role = "user" THEN req[m.id[1]].parts ELSE ResponseParts(m.id[1])

\* C12: the parts of a persisted turn are the normaliser's result exactly
\* when the request's model is a2a-model, and the parts as built otherwise;
\* every turn is persisted once and with empty attachments.
C12_NormalisedIffA2A ==
    \A i \in DOMAIN messages :
        LET m == messages[i]
        IN /\ req[m.id[1]].model = "a2a-model"
                => m.parts = normaliseA2AParts(RawPartsOf(m))
           /\ req[m.id[1]].model # "a2a-model" => m.parts = RawPartsOf(m)
           /\ m.attachments = <<>>
           /\ \A j \in DOMAIN messages : messages[j].id = m.id => j = i

C12_Witness ==
    \E i, j \in DOMAIN messages :
        /\ req[messages[i].id[1]].model = "a2a-model"
        /\ messages[i].role = "assistant"
        /\ messages[i].parts = <<TextPart("ab")>>
        /\ req[messages[j].id[1]].model = "chat-model"
        /\ messages[j].role = "assistant"
        /\ messages[j].parts = <<StepStart, TextPart("ab")>>

\* The forwarded stream of a request has ended: its client went away, or it
\* carried its closing event.
ForwardEnded(r) ==
    \/ req[r].client = "gone"
    \/ \E i \in DOMAIN req[r].outgoing :
           req[r].outgoing[i].type \in {"finish", "error"}

\* C13: the drain and the forwarded stream end together: the drain has read
\* nothing of the backend that the forwarded stream did not carry (no delta
\* and no end of generation after the forwarded stream ended), and the
\* forwarded stream carries nothing once the generation is over.
C13_JointLifetime ==
    \A r \in Posts :
        /\ req[r].client = "gone"
              => /\ req[r].produced = Forwarded(r)
                 /\ req[r].gen # "running"
                       => \E i \in DOMAIN req[r].outgoing :
                              req[r].outgoing[i].type \in {"finish", "error"}
        /\ ForwardEnded(r) => ~Draining(r) \/ req[r].client = "gone"
        /\ Forwarded(r) <= req[r].produced

\* The requests that have called getStreamContext.
CalledGetStreamContext == {r \in Posts : "streamText" \in req[r].effects}

\* C14: whatever the interleaving of the requests, a context is created
\* with success at most once in the process: once the global holds a context
\* createResumableStreamContext has been invoked exactly once, and every
\* request that was handed a context was handed the stored one.
C14_CreatedOnce ==
    /\ globalStreamContext # "null" => createCalls = 1
    /\ redisUrl => createCalls <= 1
    /\ \A r \in CalledGetStreamContext :
          req[r].pc = "resumable" \/ req[r].transport = "resumable"
              => globalStreamContext = "ctx"

C14_Witness ==
    /\ createCalls = 1
    /\ \A r \in Requests :
          r \in CalledGetStreamContext /\ req[r].transport = "resumable"

\* The stream sessions created by a request.
SessionsOf(r) == {s \in streamIds : s.streamId = r}

NoDelete == \A d \in Requests : "deleteChatById" \notin req[d].effects

\* C15: an admitted POST creates one stream session, under its own fresh id
\* and for the conversation of the request, and has created it when the
\* generation starts; a rejected request creates none.
C15_OneSessionBeforeGeneration ==
    \A r \in Posts :
        /\ Cardinality(SessionsOf(r)) <= 1
        /\ \A s \in SessionsOf(r) :
              s.chatId = req[r].id /\ "createStreamId" \in req[r].effects
        /\ "streamText" \in req[r].effects
              => "createStreamId" \in req[r].effects
        /\ "createStreamId" \in req[r].effects /\ NoDelete
              => Cardinality(SessionsOf(r)) = 1
        /\ req[r].response \in Rejections
              => SessionsOf(r) = {} /\ "createStreamId" \notin req[r].effects

C15_Witness ==
    \E r, q \in Posts :
        /\ req[r].gen = "running"
        /\ SessionsOf(r) = {[streamId |-> r, chatId |-> req[r].id]}
        /\ req[q].response \in Rejections
        /\ SessionsOf(q) = {}

\* C16: every turn a POST has persisted is in a conversation that is stored
\* and that belongs to the caller of that POST.  (A conversation's deletion
\* takes its turns with it, so a turn at odds with this was written so.)
C16_TurnInOwnConversation ==
    \A i \in DOMAIN messages :
        LET m == messages[i]
        IN HasChat(m.chatId) /\ chats[m.chatId] = req[m.id[1]].session

\* The stored turns that are the user's turn of request r.
UserTurnsOf(r) == {i \in DOMAIN messages : messages[i].id = <<r, "user">>}

\* C17: the user's turn of a POST is saved before its generation starts,
\* and, short of the conversation's deletion, is from then on stored once
\* and as it was saved, whatever the generation has come to: running,
\* finished or failed, its finish handler run, its client gone.
C17_UserTurnDurable ==
    \A r \in Posts :
        /\ "streamText" \in req[r].effects => "saveMessages" \in req[r].effects
        /\ "saveMessages" \in req[r].effects /\ NoDelete
              => /\ Cardinality(UserTurnsOf(r)) = 1
                 /\ \A i \in UserTurnsOf(r) :
                       messages[i] = Turn(r, req[r].id, "user",
                                          Cleaned(req[r].model, req[r].parts))
        /\ "saveMessages" \notin req[r].effects => UserTurnsOf(r) = {}

C17_Witness ==
    \E r \in Posts :
        /\ req[r].client = "gone"
        /\ req[r].gen = "errored"
        /\ "onFinish" \in req[r].effects
        /\ Cardinality(UserTurnsOf(r)) = 1

\* The outcomes DELETE constructs: route.ts:312, 318, 324 and 329.
DeleteOutcomes == {"bad_request:api", "unauthorized:chat", "forbidden:chat", "ok"}

\* C18: a DELETE whose awaited calls have all returned ends in one of the
\* four structured outcomes; for an id with no stored conversation that
\* includes a structured response with nothing deleted and nothing thrown.
C18_DeleteStructured ==
    \A r \in Deletes :
        req[r].pc = "done" /\ req[r].thrown \notin {"ChatSDKError", "Error"}
            => /\ req[r].response \in DeleteOutcomes
               /\ req[r].thrown = "none"

\* The POSTs that found no conversation under their id and called saveChat,
\* whether the store took the conversation or refused it.
CalledSaveChat ==
    {r \in Posts : /\ req[r].chat = NoUser
                   /\ req[r].effects \cap {"saveChat", "saveChat:refused"} # {}}

\* C19: of two POSTs in flight with one conversation id that is not stored
\* yet, at most one calls saveChat, and no turn is stored in a conversation
\* of another user than its writer.
C19_OneCreator ==
    /\ Deletes = {} => Cardinality(CalledSaveChat) <= 1
    /\ \A i \in DOMAIN messages :
          chats[messages[i].chatId] \in {NoUser, req[messages[i].id[1]].session}

====
